---- MODULE Spec2Model ----
(***************************************************************************)
(* Model of the auction server (src/main.py): the items, bids, accounts    *)
(* and donations tables behind one shared database connection, the signed  *)
(* session tokens, and the request handlers, each cut into the steps       *)
(* between which the event loop may run another handler (every awaited     *)
(* statement on the shared connection is one step).                        *)
(***************************************************************************)
EXTENDS Integers, Sequences, FiniteSets, TLC

(* ------------------------------ bounds -------------------------------- *)

\* Number of request handlers that may be in flight at the same time.
MaxReq == 2

\* Number of bid rows ever inserted (each gets a fresh uuid).
MaxBids == 2

\* Number of tokens the serializer signs when it is exercised on its own.
MaxTokens == 2

\* Largest amount a request carries.
MaxAmount == 2

\* Largest value of the wall clock, in seconds.
MaxNow == 1

(* ------------------------- program constants -------------------------- *)

SESSION_MAX_AGE == 604800

ADMIN_SESSION_MAX_AGE == 1800

(* ---------------------------- value sets ------------------------------ *)

Reqs == 1..MaxReq

\* The catalogue holds items 1 and 2; requests may also name item 3.
ItemIds == {1, 2}

ItemIdInputs == ItemIds \cup {3}

Amounts == 0..MaxAmount

\* Stored minimums of item 1: none to speak of, or the largest amount.
MinBids == {0, MaxAmount}

\* A catalogue: item 1 is open with stored minimum m, item 2 has a stored
\* minimum of 1 and is closed or not; item 2 is shown before item 1.
Catalogue(m, closed2) ==
    [i \in ItemIds |->
        [min_bid |-> IF i = 1 THEN m ELSE 1,
         is_closed |-> IF i = 1 THEN FALSE ELSE closed2,
         show_order |-> Cardinality(ItemIds) + 1 - i]]

\* Python's None and SQL's NULL; a present value v is <<v>>.
None == << >>

Some(v) == <<v>>

Max(S) == CHOOSE m \in S : \A x \in S : x <= m

VARIABLES
    items,      \* table items: id -> [min_bid, is_closed, show_order]
    bids,       \* table bids: set of rows [uuid, user_id, item_id, amount, created_at]
    accounts,   \* table accounts: set of rows [id, name, email]
    donations,  \* table donations: set of rows [user_id, amount, updated_at]
                \* (the uuid column is written once and never read)
    next_uuid,  \* the uuids handed out so far are 1 .. next_uuid - 1
    now,        \* wall clock (seconds)
    pc,         \* per handler slot: the statement it is about to run
    local,      \* per handler slot: the handler's local variables
    resp,       \* per handler slot: the response it produced
    issued,     \* the tokens the serializer has signed so far
    validated,  \* the last call of a validate function: [fn, token, at, result]
    cleared     \* the tokens a logout was answered for: the request carried
                \* them as its cookie and the response deleted that cookie

vars == <<items, bids, accounts, donations, next_uuid, now, pc, local, resp,
          issued, validated, cleared>>

db == <<items, bids, accounts, donations, next_uuid>>

codec == <<issued, validated, cleared>>

(* --------------------------- session codec ---------------------------- *)

\* The key the serializer signs with.
SECRET_KEY == "SECRET_KEY"

\* The signature of a payload and its timestamp under a key: it can be
\* computed only with the key and differs whenever any of the three does.
Signature(key, payload, iat) == <<key, payload, iat>>

\* serializer.dumps(obj) at time t: the payload, the time and their signature.
dumps(obj, t) ==
    [payload |-> obj, iat |-> t, sig |-> Signature(SECRET_KEY, obj, t)]

create_session_token(user_id, t) == dumps(user_id, t)

create_admin_session_token(t) == dumps(0, t)

\* Variant of loads that reads the payload without verifying the signature.
loads_unverified(token, max_age, t) ==
    IF t - token.iat > max_age THEN [exc |-> "SignatureExpired", value |-> 0]
    ELSE [exc |-> "", value |-> token.payload]

\* Variant of loads for which a token of exactly max_age has expired.
loads_expiring_early(token, max_age, t) ==
    IF token.sig # Signature(SECRET_KEY, token.payload, token.iat)
      THEN [exc |-> "BadSignature", value |-> 0]
    ELSE IF t - token.iat >= max_age THEN [exc |-> "SignatureExpired", value |-> 0]
    ELSE [exc |-> "", value |-> token.payload]

\* serializer.loads(token, max_age): the payload, or the exception raised.
loads(token, max_age, t) ==
    IF token.sig # Signature(SECRET_KEY, token.payload, token.iat)
      THEN [exc |-> "BadSignature", value |-> 0]
    ELSE IF t - token.iat > max_age THEN [exc |-> "SignatureExpired", value |-> 0]
    ELSE [exc |-> "", value |-> token.payload]

\* Variant of validate_session_token that gives the payload of an expired
\* token too.
validate_session_token_expired_too(token, t) ==
    LET r == loads(token, SESSION_MAX_AGE, t)
    IN  IF r.exc = "BadSignature" THEN None ELSE Some(token.payload)

validate_session_token(token, t) ==
    LET r == loads(token, SESSION_MAX_AGE, t)
    IN  IF r.exc = "" THEN Some(r.value) ELSE None

validate_admin_session(token, t) ==
    LET r == loads(token, ADMIN_SESSION_MAX_AGE, t)
    IN  IF r.exc = "" THEN r.value = 0 ELSE FALSE

\* Variant of Truthy for "user_id is not None".
IsNotNone(x) == x # None

\* Python truthiness of an optional integer: None and 0 are false.
Truthy(x) == x # None /\ x[1] # 0

\* Identifiers the server has signed a token for: accounts that logged in,
\* and 0 for the admin.
IssuedIds == {0} \cup {a.id : a \in accounts}

TokenAges == {0, SESSION_MAX_AGE, SESSION_MAX_AGE + 1}

\* Cookie values a client can send at time t: no cookie, a token the server
\* signed (possibly old), or a string whose signature does not verify.
Sessions(t) ==
    {None}
    \cup {Some(dumps(p, t)) : p \in IssuedIds}
    \cup {Some(dumps(1, t - a)) : a \in TokenAges}
    \cup {Some([payload |-> 1, iat |-> t, sig |-> Signature("guess", 1, t)])}

\* Variant of session_user for a server that keeps the tokens it has logged
\* out and turns them away.
session_user_unless_cleared(session, t) ==
    IF session = None THEN None
    ELSE IF session[1] \in cleared THEN None
    ELSE LET user_id == validate_session_token(session[1], t)
         IN  IF Truthy(user_id) THEN user_id ELSE None

\* The checks every session-protected handler starts with:
\* the user id, or None when the request is not authenticated.
session_user(session, t) ==
    IF session = None THEN None
    ELSE LET user_id == validate_session_token(session[1], t)
         IN  IF Truthy(user_id) THEN user_id ELSE None

\* Identifiers the serializer is asked to sign when exercised on its own.
CodecIds == {0, 1, 2}

AdminTokenAges == {0, ADMIN_SESSION_MAX_AGE, ADMIN_SESSION_MAX_AGE + 1}

\* What a client can put together at time t from the tokens S it has seen,
\* without the key: any identifier, any of their timestamps or the present
\* one, and any of their signatures or one made with a key of its own.
Presentable(S, t) ==
    {[payload |-> p, iat |-> i, sig |-> g] :
        p \in CodecIds,
        i \in {k.iat : k \in S} \cup {t},
        g \in {k.sig : k \in S} \cup {Signature("guess", 0, t)}}

\* create_session_token(user_id) is called.
create_session_token_call ==
    /\ Cardinality(issued) < MaxTokens
    /\ \E user_id \in CodecIds :
          issued' = issued \cup {create_session_token(user_id, now)}
    /\ UNCHANGED <<db, now, pc, local, resp, validated, cleared>>

\* create_admin_session_token() is called.
create_admin_session_token_call ==
    /\ Cardinality(issued) < MaxTokens
    /\ issued' = issued \cup {create_admin_session_token(now)}
    /\ UNCHANGED <<db, now, pc, local, resp, validated, cleared>>

\* validate_session_token(token) is called.
validate_session_token_call ==
    /\ \E token \in Presentable(issued, now) :
          validated' = Some([fn |-> "validate_session_token", token |-> token,
                             at |-> now,
                             result |-> validate_session_token(token, now)])
    /\ UNCHANGED <<db, now, pc, local, resp, issued, cleared>>

\* validate_admin_session(token) is called.
validate_admin_session_call ==
    /\ \E token \in Presentable(issued, now) :
          validated' = Some([fn |-> "validate_admin_session", token |-> token,
                             at |-> now,
                             result |-> validate_admin_session(token, now)])
    /\ UNCHANGED <<db, now, pc, local, resp, issued, cleared>>

\* Time passes until some signed token has one of the ages at which a
\* max_age starts to matter; the serializer reads the clock for nothing else.
Elapse ==
    /\ \E k \in issued, a \in TokenAges \cup AdminTokenAges :
          /\ k.iat + a > now
          /\ now' = k.iat + a
    /\ UNCHANGED <<db, pc, local, resp, codec>>

(* ------------------------------ queries ------------------------------- *)

ItemBids(item_id) == {b \in bids : b.item_id = item_id}

\* SELECT MAX(amount) FROM bids WHERE item_id = ?
select_max_amount(item_id) ==
    IF ItemBids(item_id) = {} THEN None
    ELSE Some(Max({b.amount : b \in ItemBids(item_id)}))

\* max_bid_row[0] if max_bid_row and max_bid_row[0] else 0
max_or_zero(row) == IF row # None /\ row[1] # 0 THEN row[1] ELSE 0

\* SELECT min_bid, is_closed FROM items WHERE id = ?
select_item(item_id) ==
    IF item_id \in DOMAIN items THEN Some(items[item_id]) ELSE None

(* ----------------------------- responses ------------------------------ *)

\* A handler's local variables: the handler it is (op), the authenticated
\* user_id, and the item id, amount and bid uuid it works on (0: not set).
Local(op, user_id, item_id, amount, uuid) ==
    [op |-> op, user_id |-> user_id, item_id |-> item_id,
     amount |-> amount, uuid |-> uuid]

NoLocal == Local("", 0, 0, 0, 0)

\* The local variables of a handler that turned its request away for the
\* cookie it carried: the handler it is and the cookie.
Unauthenticated(op, session) == [op |-> op, user_id |-> 0, session |-> session]

NoResp == [status |-> 0, detail |-> "", body |-> << >>]

HTTPException(status_code, detail) ==
    [status |-> status_code, detail |-> detail, body |-> << >>]

Ok(detail, body) == [status |-> 200, detail |-> detail, body |-> body]

\* The handler in slot r, whose local variables are l, ends with response x.
Finish(r, l, x) ==
    /\ pc' = [pc EXCEPT ![r] = "done"]
    /\ local' = [local EXCEPT ![r] = l]
    /\ resp' = [resp EXCEPT ![r] = x]

\* The handler in slot r goes on to statement p with local variables l.
Goto(r, p, l) ==
    /\ pc' = [pc EXCEPT ![r] = p]
    /\ local' = [local EXCEPT ![r] = l]
    /\ UNCHANGED resp

\* A request is taken by the first free slot (the slots are interchangeable).
Free(r) == pc[r] = "idle" /\ \A q \in Reqs : q < r => pc[q] # "idle"

\* Inserts still to come from handlers that passed their checks.
PendingInserts == Cardinality({r \in Reqs : pc[r] = "bid_insert"})

\* The model follows a bid to its insert only while fewer than MaxBids rows
\* have been inserted or are about to be.
InsertAllowed == (next_uuid - 1) + PendingInserts < MaxBids

(* ------------------------------ place_bid ----------------------------- *)

\* Variant of item_checks that compares with the minimum before it looks at
\* the closed flag.
item_checks_min_first(item_row, amount) ==
    IF item_row = None
      THEN HTTPException(404, "Item not found")
    ELSE IF amount < item_row[1].min_bid
      THEN HTTPException(400, "Bid amount must be at least min_bid")
    ELSE IF item_row[1].is_closed
      THEN HTTPException(400, "Bidding for this item has closed")
    ELSE NoResp

\* Variant of item_checks that also rejects an amount equal to the minimum.
item_checks_min_inclusive(item_row, amount) ==
    IF item_row = None
      THEN HTTPException(404, "Item not found")
    ELSE IF item_row[1].is_closed
      THEN HTTPException(400, "Bidding for this item has closed")
    ELSE IF amount <= item_row[1].min_bid
      THEN HTTPException(400, "Bid amount must be at least min_bid")
    ELSE NoResp

\* The checks on the row of SELECT min_bid, is_closed: the exception raised,
\* or NoResp when the handler goes on.
item_checks(item_row, amount) ==
    IF item_row = None
      THEN HTTPException(404, "Item not found")
    ELSE IF item_row[1].is_closed
      THEN HTTPException(400, "Bidding for this item has closed")
    ELSE IF amount < item_row[1].min_bid
      THEN HTTPException(400, "Bid amount must be at least min_bid")
    ELSE NoResp

\* POST /bid with the given cookie, item and amount: session check,
\* SELECT min_bid, is_closed, and the checks on that row.
place_bid_request(r, session, item_id, amount) ==
    LET user_id == session_user(session, now)
        item_row == select_item(item_id)
        anon == Unauthenticated("place_bid", session)
        l == Local("place_bid", user_id[1], item_id, amount, 0)
    IN  IF session = None
          THEN Finish(r, anon, HTTPException(401, "Authentication required"))
        ELSE IF user_id = None
          THEN Finish(r, anon, HTTPException(401, "Invalid or expired session"))
        ELSE IF item_checks(item_row, amount) # NoResp
          THEN Finish(r, l, item_checks(item_row, amount))
        ELSE Goto(r, "bid_select_max", l)

place_bid_select_item(r) ==
    /\ Free(r)
    /\ \E session \in Sessions(now), item_id \in ItemIdInputs, amount \in Amounts :
          place_bid_request(r, session, item_id, amount)
    /\ UNCHANGED <<db, now, codec>>

\* Variant of not_higher that lets an amount equal to the highest bid pass.
not_higher_strict(amount, max_existing_bid) == amount < max_existing_bid

\* request.amount <= max_existing_bid
not_higher(amount, max_existing_bid) == amount <= max_existing_bid

\* SELECT MAX(amount) and the comparison with the requested amount.
place_bid_select_max(r) ==
    /\ pc[r] = "bid_select_max"
    /\ LET max_existing_bid == max_or_zero(select_max_amount(local[r].item_id))
       IN  IF not_higher(local[r].amount, max_existing_bid)
             THEN Finish(r, local[r], HTTPException(400, "There is a new higher bid"))
           ELSE InsertAllowed /\ Goto(r, "bid_insert", local[r])
    /\ UNCHANGED <<db, now, codec>>

\* The row INSERT INTO bids adds for the handler in slot r.
new_bid(r) ==
    [uuid |-> next_uuid, user_id |-> local[r].user_id,
     item_id |-> local[r].item_id, amount |-> local[r].amount,
     created_at |-> now]

\* Variant of bids_after_insert that replaces the bids the user already has
\* on the item (an upsert, as donate does for donations).
bids_after_insert_replacing(r) ==
    {b \in bids : ~(b.user_id = local[r].user_id /\ b.item_id = local[r].item_id)}
        \cup {new_bid(r)}

\* The table after INSERT INTO bids (uuid, user_id, item_id, amount)
bids_after_insert(r) == bids \cup {new_bid(r)}

\* INSERT INTO bids (uuid, user_id, item_id, amount)
place_bid_insert(r) ==
    /\ pc[r] = "bid_insert"
    /\ bids' = bids_after_insert(r)
    /\ next_uuid' = next_uuid + 1
    /\ Goto(r, "bid_commit", local[r])
    /\ UNCHANGED <<items, accounts, donations, now, codec>>

\* Variant of place_bid_commit that closes the item once a bid on it is
\* accepted.
place_bid_commit_closing(r) ==
    /\ pc[r] = "bid_commit"
    /\ Finish(r, local[r], Ok("Bid placed successfully", << >>))
    /\ items' = [items EXCEPT ![local[r].item_id].is_closed = TRUE]
    /\ UNCHANGED <<bids, accounts, donations, next_uuid, now, codec>>

\* db.commit() and the 200 response.
place_bid_commit(r) ==
    /\ pc[r] = "bid_commit"
    /\ Finish(r, local[r], Ok("Bid placed successfully", << >>))
    /\ UNCHANGED <<db, now, codec>>

(* ----------------------------- get_user_bid --------------------------- *)

\* Rows of SELECT uuid, amount FROM bids WHERE user_id = ? AND item_id = ?
user_item_bids(user_id, item_id) ==
    {b \in bids : b.user_id = user_id /\ b.item_id = item_id}

\* Variant of latest_bids for ORDER BY created_at ASC.
oldest_bids(rows) == {b \in rows : \A c \in rows : c.created_at >= b.created_at}

\* ORDER BY created_at DESC LIMIT 1: the rows that can come first (rows with
\* the same created_at come in an order the statement does not fix).
latest_bids(rows) == {b \in rows : \A c \in rows : c.created_at <= b.created_at}

\* GET /bid/{item_id} with the given cookie: session check and the SELECT
\* of the user's latest bid on the item.
get_user_bid_request(r, session, item_id) ==
    LET user_id == session_user(session, now)
        anon == Unauthenticated("get_user_bid", session)
    IN  IF session = None
          THEN Finish(r, anon, HTTPException(404, "Not found"))
        ELSE IF user_id = None
          THEN Finish(r, anon, HTTPException(404, "Not found"))
        ELSE IF user_item_bids(user_id[1], item_id) = {}
          THEN Finish(r, Local("get_user_bid", user_id[1], item_id, 0, 0),
                      HTTPException(404, "Not found"))
        ELSE \E bid_row \in latest_bids(user_item_bids(user_id[1], item_id)) :
                Goto(r, "get_select_max",
                     Local("get_user_bid", user_id[1], item_id,
                           bid_row.amount, bid_row.uuid))

get_user_bid_select_bid(r) ==
    /\ Free(r)
    /\ \E session \in Sessions(now), item_id \in ItemIdInputs :
          get_user_bid_request(r, session, item_id)
    /\ UNCHANGED <<db, now, codec>>

\* is_highest = user_amount >= max_amount
is_highest(user_amount, max_amount) == user_amount >= max_amount

\* SELECT MAX(amount) for the item, and the 200 response.
get_user_bid_select_max(r) ==
    /\ pc[r] = "get_select_max"
    /\ LET max_amount == max_or_zero(select_max_amount(local[r].item_id))
       IN  Finish(r, local[r],
                  Ok("", <<[uid |-> local[r].uuid,
                            amount |-> local[r].amount,
                            is_highest |-> is_highest(local[r].amount, max_amount)]>>))
    /\ UNCHANGED <<db, now, codec>>

(* ------------------------------ delete_bid ---------------------------- *)

\* Uuids a request can name: those handed out so far and one never issued.
UuidInputs == 1..next_uuid

\* Variant of own_bid without the user_id condition.
any_users_bid(id, user_id) == {b \in bids : b.uuid = id}

\* Rows matched by WHERE uuid = ? AND user_id = ?
own_bid(id, user_id) == {b \in bids : b.uuid = id /\ b.user_id = user_id}

\* DELETE /bid/{id} with the given cookie: session check and
\* SELECT item_id FROM bids WHERE uuid = ? AND user_id = ?
delete_bid_request(r, session, id) ==
    LET user_id == session_user(session, now)
        anon == Unauthenticated("delete_bid", session)
    IN  IF session = None
          THEN Finish(r, anon, HTTPException(401, "Authentication required"))
        ELSE IF user_id = None
          THEN Finish(r, anon, HTTPException(401, "Invalid or expired session"))
        ELSE IF own_bid(id, user_id[1]) = {}
          THEN Finish(r, Local("delete_bid", user_id[1], 0, 0, id),
                      HTTPException(404, "Bid not found"))
        ELSE \E bid_row \in own_bid(id, user_id[1]) :
                Goto(r, "del_select_item",
                     Local("delete_bid", user_id[1], bid_row.item_id, 0, id))

delete_bid_select_bid(r) ==
    /\ Free(r)
    /\ \E session \in Sessions(now), id \in UuidInputs :
          delete_bid_request(r, session, id)
    /\ UNCHANGED <<db, now, codec>>

\* SELECT is_closed FROM items WHERE id = ? and the check on it.
delete_bid_select_item(r) ==
    /\ pc[r] = "del_select_item"
    /\ LET item_row == select_item(local[r].item_id)
       IN  IF item_row # None /\ item_row[1].is_closed
             THEN Finish(r, local[r], HTTPException(400,
                     "Cannot cancel bid - bidding for this item has closed"))
           ELSE Goto(r, "del_delete", local[r])
    /\ UNCHANGED <<db, now, codec>>

\* Variant of bids_after_delete for DELETE FROM bids WHERE user_id = ?
bids_after_delete_all_of_user(id, user_id) ==
    {b \in bids : b.user_id # user_id}

\* The table after DELETE FROM bids WHERE uuid = ? AND user_id = ?
bids_after_delete(id, user_id) == bids \ own_bid(id, user_id)

\* DELETE FROM bids WHERE uuid = ? AND user_id = ?
delete_bid_delete(r) ==
    /\ pc[r] = "del_delete"
    /\ bids' = bids_after_delete(local[r].uuid, local[r].user_id)
    /\ Goto(r, "del_commit", local[r])
    /\ UNCHANGED <<items, accounts, donations, next_uuid, now, codec>>

\* db.commit() and the 200 response.
delete_bid_commit(r) ==
    /\ pc[r] = "del_commit"
    /\ Finish(r, local[r], Ok("Bid deleted successfully", << >>))
    /\ UNCHANGED <<db, now, codec>>

(* ------------------------- get_items, get_item ------------------------ *)

\* One row of SELECT i.id, ..., i.min_bid, MAX(b.amount) as current_bid, ...
\* FROM items i LEFT JOIN bids b ON i.id = b.item_id GROUP BY i.id,
\* as the Item the handler builds from it.
Item(id) ==
    [id |-> id,
     minimumBid |-> items[id].min_bid,
     currentBid |-> select_max_amount(id),
     showOrder |-> items[id].show_order,
     isClosed |-> items[id].is_closed]

\* The sequences ORDER BY i.show_order can return.
ordered_item_ids ==
    {s \in [1..Cardinality(DOMAIN items) -> DOMAIN items] :
        /\ \A j, k \in DOMAIN s : j # k => s[j] # s[k]
        /\ \A j, k \in DOMAIN s :
              j < k => items[s[j]].show_order <= items[s[k]].show_order}

\* GET /items
get_items(r) ==
    /\ Free(r)
    /\ \E s \in ordered_item_ids :
          Finish(r, Local("get_items", 0, 0, 0, 0),
                 Ok("", [k \in DOMAIN s |-> Item(s[k])]))
    /\ UNCHANGED <<db, now, codec>>

\* GET /item/{id}
get_item(r) ==
    /\ Free(r)
    /\ \E id \in ItemIdInputs :
          IF select_item(id) = None
            THEN Finish(r, Local("get_item", 0, id, 0, 0),
                        HTTPException(404, "Item not found"))
          ELSE Finish(r, Local("get_item", 0, id, 0, 0), Ok("", <<Item(id)>>))
    /\ UNCHANGED <<db, now, codec>>

(* -------------------------------- login ------------------------------- *)

\* Names and emails a login request carries.
Names == {"Alice", "Alicia"}

Emails == {"a@x.com", "c@x.com"}

\* A login handler's local variables.
LoginLocal(user_id, name, email) ==
    [op |-> "login", user_id |-> user_id, name |-> name, email |-> email]

\* The accounts table holds at most one row per email: an INSERT of an email
\* it already holds raises IntegrityError.
email_taken(email) == \E a \in accounts : a.email = email

\* The id the table assigns to a new row: one more than the largest so far,
\* starting from 1.
next_account_id ==
    IF accounts = {} THEN 1 ELSE Max({a.id : a \in accounts}) + 1

\* The table after INSERT INTO accounts (name, email) VALUES (?, ?)
accounts_after_insert(name, email) ==
    accounts \cup {[id |-> next_account_id, name |-> name, email |-> email]}

\* Variant of on_integrity_error without the fallback: the error ends the
\* request as any other exception does.
on_integrity_error_fails(r, l) ==
    Finish(r, l, HTTPException(500, "Login failed"))

\* except aiosqlite.IntegrityError: go on to the UPDATE.
on_integrity_error(r, l) == Goto(r, "login_update", l)

\* POST /login with the given name and email, up to the INSERT.
login_request(r, name, email) ==
    IF email_taken(email)
      THEN /\ on_integrity_error(r, LoginLocal(0, name, email))
           /\ UNCHANGED accounts
      ELSE /\ accounts' = accounts_after_insert(name, email)
           /\ Goto(r, "login_commit", LoginLocal(next_account_id, name, email))

\* INSERT INTO accounts (name, email) VALUES (?, ?)
login_insert(r) ==
    /\ Free(r)
    /\ \E name \in Names, email \in Emails : login_request(r, name, email)
    /\ UNCHANGED <<items, bids, donations, next_uuid, now, codec>>

\* Variant of accounts_after_update that leaves the stored name alone.
accounts_after_update_keeping_name(name, email) == accounts

\* The table after UPDATE accounts SET name = ? WHERE email = ?
accounts_after_update(name, email) ==
    {IF a.email = email THEN [a EXCEPT !.name = name] ELSE a : a \in accounts}

\* The rows of RETURNING id
returning_ids(email) == {a.id : a \in {x \in accounts : x.email = email}}

\* UPDATE accounts SET name = ? WHERE email = ? RETURNING id, and the commit.
login_update(r) ==
    /\ pc[r] = "login_update"
    /\ accounts' = accounts_after_update(local[r].name, local[r].email)
    /\ IF returning_ids(local[r].email) = {}
         THEN Finish(r, local[r], HTTPException(500, "Database error"))
       ELSE \E id \in returning_ids(local[r].email) :
               Goto(r, "login_commit", [local[r] EXCEPT !.user_id = id])
    /\ UNCHANGED <<items, bids, donations, next_uuid, now, codec>>

\* Variant of login_session_token that signs the admin identifier.
login_admin_token(user_id, t) == create_admin_session_token(t)

\* session_token = create_session_token(user_id)
login_session_token(user_id, t) == create_session_token(user_id, t)

\* db.commit(), create_session_token(user_id) and the response that sets the
\* session cookie.
login_commit(r) ==
    /\ pc[r] = "login_commit"
    /\ LET session_token == login_session_token(local[r].user_id, now)
       IN  /\ issued' = issued \cup {session_token}
           /\ Finish(r, local[r], Ok("Logged in successfully", <<session_token>>))
    /\ UNCHANGED <<db, now, validated, cleared>>

(* ------------------- logout, admin_login, admin_logout ---------------- *)

\* What is kept of a request to a handler that reads no cookie: the handler
\* it is and the cookie the request carried all the same.
Carried(op, cookie) == [op |-> op, user_id |-> 0, session |-> cookie]

\* The tokens a client was told to delete once the cookie has been answered
\* with delete_cookie.
cleared_after(cookie) ==
    IF cookie = None THEN cleared ELSE cleared \cup {cookie[1]}

\* POST /logout from a client that holds the given session cookie: the
\* response deletes the cookie, and nothing is read or written.
logout_request(r, session) ==
    /\ Finish(r, Carried("logout", session),
              Ok("Logged out successfully", <<None>>))
    /\ cleared' = cleared_after(session)

\* The password the operator configured (the handler answers 500 when none is).
ADMIN_PASSWORD == "ADMIN_PASSWORD"

Passwords == {ADMIN_PASSWORD, "guess"}

\* POST /admin/login with the given password.
admin_login_request(r, password) ==
    LET l == [op |-> "admin_login", user_id |-> 0, password |-> password]
        admin_session_token == create_admin_session_token(now)
    IN  IF ADMIN_PASSWORD = ""
          THEN /\ Finish(r, l, HTTPException(500, "Admin login failed"))
               /\ UNCHANGED issued
        ELSE IF password # ADMIN_PASSWORD
          THEN /\ Finish(r, l, HTTPException(401, "Invalid admin password"))
               /\ UNCHANGED issued
        ELSE /\ Finish(r, l, Ok("Admin logged in successfully",
                                <<admin_session_token>>))
             /\ issued' = issued \cup {admin_session_token}

\* POST /admin/logout from a client that holds the given admin_session
\* cookie: the response deletes the cookie, and nothing is read or written.
admin_logout_request(r, admin_session) ==
    /\ Finish(r, Carried("admin_logout", admin_session),
              Ok("Admin logged out successfully", <<None>>))
    /\ cleared' = cleared_after(admin_session)

(* ------------------------- donate, get_donation ----------------------- *)

\* Variant of donations_after_upsert that adds the amount to the stored one.
donations_after_upsert_adding(user_id, amount, t) ==
    LET stored == {d.amount : d \in {x \in donations : x.user_id = user_id}}
    IN  {d \in donations : d.user_id # user_id}
            \cup {[user_id |-> user_id, updated_at |-> t,
                   amount |-> IF stored = {} THEN amount
                              ELSE amount + Max(stored)]}

\* The table after INSERT INTO donations ... ON CONFLICT(user_id) DO UPDATE
\* SET amount = excluded.amount, updated_at = datetime('now', 'utc')
donations_after_upsert(user_id, amount, t) ==
    {d \in donations : d.user_id # user_id}
        \cup {[user_id |-> user_id, amount |-> amount, updated_at |-> t]}

\* POST /donate with the given cookie and amount: session check and upsert.
donate_request(r, session, amount) ==
    LET user_id == session_user(session, now)
        anon == Unauthenticated("donate", session)
    IN  IF session = None
          THEN /\ Finish(r, anon, HTTPException(401, "Authentication required"))
               /\ UNCHANGED donations
        ELSE IF user_id = None
          THEN /\ Finish(r, anon, HTTPException(401, "Invalid or expired session"))
               /\ UNCHANGED donations
        ELSE /\ donations' = donations_after_upsert(user_id[1], amount, now)
             /\ Goto(r, "donate_commit", Local("donate", user_id[1], 0, amount, 0))

donate_upsert(r) ==
    /\ Free(r)
    /\ \E session \in Sessions(now), amount \in Amounts :
          donate_request(r, session, amount)
    /\ UNCHANGED <<items, bids, accounts, next_uuid, now, codec>>

\* db.commit() and the 200 response.
donate_commit(r) ==
    /\ pc[r] = "donate_commit"
    /\ Finish(r, local[r], Ok("Donation recorded successfully", << >>))
    /\ UNCHANGED <<db, now, codec>>

\* Rows of SELECT amount FROM donations WHERE user_id = ?
select_donation(user_id) == {d \in donations : d.user_id = user_id}

\* raise HTTPException(status_code=400, detail="No donation found")
no_donation_found == HTTPException(400, "No donation found")

\* GET /donations with the given cookie.
get_donation_request(r, session) ==
    LET user_id == session_user(session, now)
        anon == Unauthenticated("get_donation", session)
    IN  IF session = None
          THEN Finish(r, anon, HTTPException(401, "Authentication required"))
        ELSE IF user_id = None
          THEN Finish(r, anon, HTTPException(401, "Invalid or expired session"))
        ELSE IF select_donation(user_id[1]) = {}
          THEN Finish(r, Local("get_donation", user_id[1], 0, 0, 0),
                      no_donation_found)
        ELSE \E row \in select_donation(user_id[1]) :
                Finish(r, Local("get_donation", user_id[1], 0, 0, 0),
                       Ok("", <<row.amount>>))

get_donation(r) ==
    /\ Free(r)
    /\ \E session \in Sessions(now) : get_donation_request(r, session)
    /\ UNCHANGED <<db, now, codec>>

(* ----------------------------- get_all_bids --------------------------- *)

\* Cookie values a client can send as admin_session at time t: no cookie, an
\* admin token (possibly old), the session token of an account, or a string
\* whose signature does not verify.
AdminSessions(t) ==
    {None}
    \cup {Some(create_admin_session_token(t - a)) : a \in AdminTokenAges}
    \cup {Some(create_session_token(a.id, t)) : a \in accounts}
    \cup {Some([payload |-> 0, iat |-> t, sig |-> Signature("guess", 0, t)])}

\* not (not admin_session or not validate_admin_session(admin_session))
verify_admin_session(admin_session, t) ==
    /\ admin_session # None
    /\ validate_admin_session(admin_session[1], t)

\* Rows of FROM bids b JOIN items i ON b.item_id = i.id
\*              JOIN accounts a ON b.user_id = a.id
joined_bids ==
    {b \in bids : b.item_id \in DOMAIN items
                  /\ \E a \in accounts : a.id = b.user_id}

\* The sequences ORDER BY b.item_id, b.created_at DESC can return.
ordered_bid_rows ==
    {s \in [1..Cardinality(joined_bids) -> joined_bids] :
        /\ \A j, k \in DOMAIN s : j # k => s[j] # s[k]
        /\ \A j, k \in DOMAIN s :
              j < k => \/ s[j].item_id < s[k].item_id
                       \/ /\ s[j].item_id = s[k].item_id
                          /\ s[j].created_at >= s[k].created_at}

\* BidInfo(itemTitle, bidderName, amount, createdAt) of a row; the item's id
\* stands for its title.
BidInfo(b) ==
    [itemTitle |-> b.item_id,
     bidderName |-> (CHOOSE a \in accounts : a.id = b.user_id).name,
     amount |-> b.amount,
     createdAt |-> b.created_at]

\* bids_by_item: the rows grouped by item_id, in the order they came.
bids_by_item(rows) ==
    [i \in {rows[k].item_id : k \in DOMAIN rows} |->
        LET of_item == SelectSeq(rows, LAMBDA b : b.item_id = i)
        IN  [k \in DOMAIN of_item |-> BidInfo(of_item[k])]]

\* GET /admin/bids with the given admin_session cookie.
get_all_bids_request(r, admin_session) ==
    IF ~verify_admin_session(admin_session, now)
      THEN Finish(r, Unauthenticated("get_all_bids", admin_session),
                  HTTPException(401, "Admin authentication required"))
    ELSE \E rows \in ordered_bid_rows :
            Finish(r, Local("get_all_bids", 0, 0, 0, 0),
                   Ok("", <<bids_by_item(rows)>>))

get_all_bids(r) ==
    /\ Free(r)
    /\ \E admin_session \in AdminSessions(now) :
          get_all_bids_request(r, admin_session)
    /\ UNCHANGED <<db, now, codec>>

(* ------------------- requests of clients that logged in --------------- *)

\* Cookie values of a client that only has what the server sent it: no
\* cookie, or a token the server signed in a login or admin login.
Held == {None} \cup {Some(k) : k \in issued}

\* The handlers as such clients call them, with the other inputs of a
\* request drawn from the sets given. Logins are followed while fewer than
\* MaxTokens tokens have been signed.
login_held(r, names, emails) ==
    /\ Free(r)
    /\ Cardinality(issued) < MaxTokens
    /\ \E name \in names, email \in emails : login_request(r, name, email)
    /\ UNCHANGED <<items, bids, donations, next_uuid, now, codec>>

logout_held(r) ==
    /\ Free(r)
    /\ \E session \in Held : logout_request(r, session)
    /\ UNCHANGED <<db, now, issued, validated>>

admin_login_held(r) ==
    /\ Free(r)
    /\ Cardinality(issued) < MaxTokens
    /\ \E password \in Passwords : admin_login_request(r, password)
    /\ UNCHANGED <<db, now, validated, cleared>>

admin_logout_held(r) ==
    /\ Free(r)
    /\ \E admin_session \in Held : admin_logout_request(r, admin_session)
    /\ UNCHANGED <<db, now, issued, validated>>

place_bid_held(r, item_ids, amounts) ==
    /\ Free(r)
    /\ \E session \in Held, item_id \in item_ids, amount \in amounts :
          place_bid_request(r, session, item_id, amount)
    /\ UNCHANGED <<db, now, codec>>

get_user_bid_held(r) ==
    /\ Free(r)
    /\ \E session \in Held, item_id \in ItemIdInputs :
          get_user_bid_request(r, session, item_id)
    /\ UNCHANGED <<db, now, codec>>

delete_bid_held(r) ==
    /\ Free(r)
    /\ \E session \in Held, id \in UuidInputs :
          delete_bid_request(r, session, id)
    /\ UNCHANGED <<db, now, codec>>

donate_held(r, amounts) ==
    /\ Free(r)
    /\ \E session \in Held, amount \in amounts :
          donate_request(r, session, amount)
    /\ UNCHANGED <<items, bids, accounts, next_uuid, now, codec>>

get_donation_held(r) ==
    /\ Free(r)
    /\ \E session \in Held : get_donation_request(r, session)
    /\ UNCHANGED <<db, now, codec>>

get_all_bids_held(r) ==
    /\ Free(r)
    /\ \E admin_session \in Held : get_all_bids_request(r, admin_session)
    /\ UNCHANGED <<db, now, codec>>

\* The max_age the handlers apply to a token the server signed: the admin
\* token is the one whose payload is 0.
max_age_of(k) ==
    IF k.payload = 0 THEN ADMIN_SESSION_MAX_AGE ELSE SESSION_MAX_AGE

\* Time passes until a token a logout was answered for is as old as its
\* max_age allows, or one second older.
Age ==
    /\ \E k \in cleared, late \in {0, 1} :
          /\ k.iat + max_age_of(k) + late > now
          /\ now' = k.iat + max_age_of(k) + late
    /\ UNCHANGED <<db, pc, local, resp, codec>>

(* ------------------------------ environment --------------------------- *)

\* The framework sends the response; the slot is free for the next request.
Return(r) ==
    /\ pc[r] = "done"
    /\ pc' = [pc EXCEPT ![r] = "idle"]
    /\ local' = [local EXCEPT ![r] = NoLocal]
    /\ resp' = [resp EXCEPT ![r] = NoResp]
    /\ UNCHANGED <<db, now, codec>>

\* The out-of-band administrative action that closes an item.
CloseItem(i) ==
    /\ i \in DOMAIN items
    /\ ~items[i].is_closed
    /\ items' = [items EXCEPT ![i].is_closed = TRUE]
    /\ UNCHANGED <<bids, accounts, donations, next_uuid, now, pc, local, resp, codec>>

\* One second passes.  The clock is read only to stamp created_at and
\* updated_at, so a second in which no row was stamped is not told apart
\* from the one before.
Tick ==
    /\ now < MaxNow
    /\ \/ \E b \in bids : b.created_at = now
       \/ \E d \in donations : d.updated_at = now
    /\ now' = now + 1
    /\ UNCHANGED <<db, pc, local, resp, codec>>

(* ---------------------------- specification --------------------------- *)

\* What the slots, the clock and the tables other than items start as.
InitRest ==
    /\ bids = {}
    /\ donations = {}
    /\ issued = {}
    /\ validated = None
    /\ cleared = {}
    /\ accounts = {[id |-> 1, name |-> "A", email |-> "a@x.com"],
                   [id |-> 2, name |-> "B", email |-> "b@x.com"]}
    /\ next_uuid = 1
    /\ now = 0
    /\ pc = [r \in Reqs |-> "idle"]
    /\ local = [r \in Reqs |-> NoLocal]
    /\ resp = [r \in Reqs |-> NoResp]

Init ==
    /\ items \in {Catalogue(m, TRUE) : m \in MinBids}
    /\ InitRest

\* The bidding handlers, any number of them in flight at once.
Next ==
    \/ \E r \in Reqs : place_bid_select_item(r)
    \/ \E r \in Reqs : place_bid_select_max(r)
    \/ \E r \in Reqs : place_bid_insert(r)
    \/ \E r \in Reqs : place_bid_commit(r)
    \/ \E r \in Reqs : get_user_bid_select_bid(r)
    \/ \E r \in Reqs : get_user_bid_select_max(r)
    \/ \E r \in Reqs : delete_bid_select_bid(r)
    \/ \E r \in Reqs : delete_bid_select_item(r)
    \/ \E r \in Reqs : delete_bid_delete(r)
    \/ \E r \in Reqs : delete_bid_commit(r)
    \/ \E r \in Reqs : Return(r)
    \/ \E i \in ItemIds : CloseItem(i)
    \/ Tick

Spec == Init /\ [][Next]_vars

\* One request at a time through slot 1, with the item listing.
NextItems ==
    \/ place_bid_select_item(1)
    \/ place_bid_select_max(1)
    \/ place_bid_insert(1)
    \/ place_bid_commit(1)
    \/ delete_bid_select_bid(1)
    \/ delete_bid_select_item(1)
    \/ delete_bid_delete(1)
    \/ delete_bid_commit(1)
    \/ get_items(1)
    \/ get_item(1)
    \/ Return(1)
    \/ \E i \in ItemIds : CloseItem(i)

InitItems ==
    /\ items \in {Catalogue(m, closed2) : m \in MinBids, closed2 \in BOOLEAN}
    /\ InitRest

SpecItems == InitItems /\ [][NextItems]_vars

\* Donations of the two accounts, any number of requests in flight at once.
NextDonate ==
    \/ \E r \in Reqs : donate_upsert(r)
    \/ \E r \in Reqs : donate_commit(r)
    \/ \E r \in Reqs : get_donation(r)
    \/ \E r \in Reqs : Return(r)
    \/ Tick

InitDonate ==
    /\ items = Catalogue(0, TRUE)
    /\ InitRest

SpecDonate == InitDonate /\ [][NextDonate]_vars

\* The serializer on its own: tokens are signed, time passes, and tokens a
\* client can present are validated.
NextCodec ==
    \/ create_session_token_call
    \/ create_admin_session_token_call
    \/ validate_session_token_call
    \/ validate_admin_session_call
    \/ Elapse

InitCodec ==
    /\ items = Catalogue(0, TRUE)
    /\ InitRest

SpecCodec == InitCodec /\ [][NextCodec]_vars

\* One request at a time through slot 1: every handler that asks for a
\* session or admin_session cookie.
NextSession ==
    \/ place_bid_select_item(1)
    \/ place_bid_select_max(1)
    \/ place_bid_insert(1)
    \/ place_bid_commit(1)
    \/ get_user_bid_select_bid(1)
    \/ get_user_bid_select_max(1)
    \/ delete_bid_select_bid(1)
    \/ delete_bid_select_item(1)
    \/ delete_bid_delete(1)
    \/ delete_bid_commit(1)
    \/ donate_upsert(1)
    \/ donate_commit(1)
    \/ get_donation(1)
    \/ get_all_bids(1)
    \/ Return(1)
    \/ Tick

SpecSession == Init /\ [][NextSession]_vars

\* One request at a time through slot 1: every handler of the API, called
\* by clients that logged in, while items are closed.
NextApi ==
    \/ login_held(1, Names, Emails)
    \/ login_update(1)
    \/ login_commit(1)
    \/ logout_held(1)
    \/ admin_login_held(1)
    \/ admin_logout_held(1)
    \/ place_bid_held(1, ItemIdInputs, Amounts)
    \/ place_bid_select_max(1)
    \/ place_bid_insert(1)
    \/ place_bid_commit(1)
    \/ get_user_bid_held(1)
    \/ get_user_bid_select_max(1)
    \/ delete_bid_held(1)
    \/ delete_bid_select_item(1)
    \/ delete_bid_delete(1)
    \/ delete_bid_commit(1)
    \/ donate_held(1, Amounts)
    \/ donate_commit(1)
    \/ get_donation_held(1)
    \/ get_all_bids_held(1)
    \/ get_items(1)
    \/ get_item(1)
    \/ Return(1)
    \/ \E i \in ItemIds : CloseItem(i)

SpecApi == Init /\ [][NextApi]_vars

\* One request at a time through slot 1: clients logging in and out and
\* calling the handlers that ask for a session, while their tokens age.
NextLogout ==
    \/ login_held(1, {"Alice"}, Emails)
    \/ login_update(1)
    \/ login_commit(1)
    \/ logout_held(1)
    \/ admin_login_held(1)
    \/ admin_logout_held(1)
    \/ place_bid_held(1, ItemIds, {MaxAmount})
    \/ place_bid_select_max(1)
    \/ place_bid_insert(1)
    \/ place_bid_commit(1)
    \/ delete_bid_held(1)
    \/ delete_bid_select_item(1)
    \/ delete_bid_delete(1)
    \/ delete_bid_commit(1)
    \/ donate_held(1, {MaxAmount})
    \/ donate_commit(1)
    \/ get_donation_held(1)
    \/ get_all_bids_held(1)
    \/ Return(1)
    \/ Age

InitLogout ==
    /\ items = Catalogue(0, TRUE)
    /\ InitRest

SpecLogout == InitLogout /\ [][NextLogout]_vars

\* Logins, any number of them in flight at once, on an empty accounts table.
NextLogin ==
    \/ \E r \in Reqs : login_insert(r)
    \/ \E r \in Reqs : login_update(r)
    \/ \E r \in Reqs : login_commit(r)
    \/ \E r \in Reqs : Return(r)

InitLogin ==
    /\ items = Catalogue(0, TRUE)
    /\ bids = {}
    /\ accounts = {}
    /\ donations = {}
    /\ issued = {}
    /\ validated = None
    /\ cleared = {}
    /\ next_uuid = 1
    /\ now = 0
    /\ pc = [r \in Reqs |-> "idle"]
    /\ local = [r \in Reqs |-> NoLocal]
    /\ resp = [r \in Reqs |-> NoResp]

SpecLogin == InitLogin /\ [][NextLogin]_vars

(* ------------------------------- claims ------------------------------- *)

\* The highest amount among the bids B holds for item i, 0 when it holds none.
CurrentMax(B, i) ==
    LET amounts == {b.amount : b \in {x \in B : x.item_id = i}}
    IN  IF amounts = {} THEN 0 ELSE Max(amounts)

\* The handler in slot r takes a step.
Steps(r) == pc'[r] # pc[r]

\* C1: the bids stored for an item are strictly increasing in amount in the
\* order their rows were inserted (uuids are handed out in that order), so no
\* two bids of one item have the same amount.
C1_AcceptedBidsStrictlyIncreasing ==
    \A b1, b2 \in bids :
        (b1.item_id = b2.item_id /\ b1.uuid < b2.uuid) => b1.amount < b2.amount

\* C2: no step inserts a bid row for an item that is closed when the row is
\* inserted.
C2_NoInsertOnClosedItem ==
    [][\A b \in bids' \ bids : ~items[b.item_id].is_closed]_vars

\* An authenticated place_bid request starts in slot r with this step; its
\* item_id and amount are then local'[r].item_id and local'[r].amount.
PlaceBidStarts(r) ==
    /\ pc[r] = "idle"
    /\ local'[r].op = "place_bid"
    /\ local'[r].user_id # 0

\* C3: a place_bid whose amount equals the item's highest bid passes the
\* checks on the item row (it is not rejected for another reason), and when
\* its amount is equal to or lower than the highest bid the handler reads, it
\* is rejected as not highest and no bid is inserted.
C3_NotHigherRejected ==
    [][\A r \in Reqs :
        /\ ( /\ PlaceBidStarts(r)
             /\ local'[r].item_id \in DOMAIN items
             /\ ~items[local'[r].item_id].is_closed
             /\ ItemBids(local'[r].item_id) # {}
             /\ local'[r].amount = CurrentMax(bids, local'[r].item_id) )
           => pc'[r] = "bid_select_max"
        /\ ( /\ pc[r] = "bid_select_max"
             /\ Steps(r)
             /\ local[r].amount <= CurrentMax(bids, local[r].item_id) )
           => /\ pc'[r] = "done"
              /\ resp'[r] = HTTPException(400, "There is a new higher bid")
              /\ bids' = bids
      ]_vars

\* A request for the amount of the item's highest bid has been rejected as
\* not highest.
C3_Witness ==
    \E r \in Reqs :
        /\ pc[r] = "done"
        /\ local[r].op = "place_bid"
        /\ resp[r] = HTTPException(400, "There is a new higher bid")
        /\ ItemBids(local[r].item_id) # {}
        /\ local[r].amount = CurrentMax(bids, local[r].item_id)

\* The steps of a place_bid whose amount is the stored minimum of an open
\* item without bids, for stored minimums in M: it passes the checks on the
\* item row, it passes the comparison with the highest bid when the item has
\* no bid at that moment, and its insert adds exactly one row, with that
\* amount.
MinimumBidAccepted(M) ==
    \A r \in Reqs :
        /\ ( /\ PlaceBidStarts(r)
             /\ local'[r].item_id \in DOMAIN items
             /\ ~items[local'[r].item_id].is_closed
             /\ items[local'[r].item_id].min_bid \in M
             /\ local'[r].amount = items[local'[r].item_id].min_bid )
           => pc'[r] = "bid_select_max"
        /\ ( /\ pc[r] = "bid_select_max"
             /\ Steps(r)
             /\ ItemBids(local[r].item_id) = {}
             /\ items[local[r].item_id].min_bid \in M
             /\ local[r].amount = items[local[r].item_id].min_bid )
           => pc'[r] = "bid_insert"
        /\ ( pc[r] = "bid_insert" /\ Steps(r) )
           => /\ bids \subseteq bids'
              /\ \E b \in bids' \ bids :
                    /\ bids' \ bids = {b}
                    /\ b.amount = local[r].amount
                    /\ b.item_id = local[r].item_id
                    /\ b.user_id = local[r].user_id
              /\ pc'[r] = "bid_commit"

\* C4 as stated: for every stored minimum, a place_bid of exactly the stored
\* minimum on an open item without bids is accepted and inserts one bid.
C4_MinimumBidAcceptedForEveryMinimum == [][MinimumBidAccepted(MinBids)]_vars

\* C4 amended: the same for every stored minimum of at least 1.
C4_PositiveMinimumBidAccepted == [][MinimumBidAccepted(MinBids \ {0})]_vars

\* The first bid of an item has been inserted and it is of the item's stored
\* minimum, which is at least 1.
C4_Witness ==
    \E r \in Reqs :
        /\ pc[r] = "bid_commit"
        /\ items[local[r].item_id].min_bid >= 1
        /\ local[r].amount = items[local[r].item_id].min_bid
        /\ \E b \in bids :
              /\ ItemBids(local[r].item_id) = {b}
              /\ b.amount = local[r].amount
              /\ b.user_id = local[r].user_id

\* The bids item i holds in the table B.
BidsOf(B, i) == {b \in B : b.item_id = i}

\* C5 as stated: no step lowers the highest bid amount of an item (compared
\* whenever the item has bids before and after the step).
C5_HighestBidNeverDecreases ==
    [][\A i \in ItemIds :
          (BidsOf(bids, i) # {} /\ BidsOf(bids', i) # {})
            => CurrentMax(bids', i) >= CurrentMax(bids, i)]_vars

\* C5 amended: the highest bid amount of an item is lowered only by the DELETE
\* of a delete_bid handler working on a bid of that item; no step of place_bid
\* lowers it.
C5_HighestBidDecreasesOnlyByDelete ==
    [][\A i \in ItemIds :
          CurrentMax(bids', i) < CurrentMax(bids, i)
            => \E r \in Reqs :
                  /\ pc[r] = "del_delete"
                  /\ pc'[r] = "del_commit"
                  /\ local[r].item_id = i
      ]_vars

\* A place_bid has inserted a bid for an item that already had one.
C5_Witness ==
    \E r \in Reqs :
        /\ pc[r] = "bid_commit"
        /\ Cardinality(ItemBids(local[r].item_id)) >= 2

\* C6: place_bid reports its failures in the order missing item, closed item,
\* amount below the stored minimum, amount not above the highest bid, and a
\* step that ends a place_bid without success leaves the bids as they were.
C6_FailurePrecedence ==
    [][\A r \in Reqs :
        /\ PlaceBidStarts(r)
           => LET i == local'[r].item_id
                  a == local'[r].amount
              IN  IF i \notin DOMAIN items
                    THEN /\ pc'[r] = "done"
                         /\ resp'[r] = HTTPException(404, "Item not found")
                  ELSE IF items[i].is_closed
                    THEN /\ pc'[r] = "done"
                         /\ resp'[r] = HTTPException(400, "Bidding for this item has closed")
                  ELSE IF a < items[i].min_bid
                    THEN /\ pc'[r] = "done"
                         /\ resp'[r] = HTTPException(400, "Bid amount must be at least min_bid")
                  ELSE pc'[r] = "bid_select_max"
        /\ ( pc[r] = "bid_select_max" /\ Steps(r) )
           => IF local[r].amount <= CurrentMax(bids, local[r].item_id)
                THEN /\ pc'[r] = "done"
                     /\ resp'[r] = HTTPException(400, "There is a new higher bid")
              ELSE pc'[r] = "bid_insert"
        /\ ( /\ Steps(r)
             /\ pc'[r] = "done"
             /\ local'[r].op = "place_bid"
             /\ resp'[r].status # 200 )
           => bids' = bids
      ]_vars

\* A place_bid on a closed item, for an amount that is also below the item's
\* stored minimum, has been rejected as closed.
C6_Witness ==
    \E r \in Reqs :
        /\ pc[r] = "done"
        /\ local[r].op = "place_bid"
        /\ resp[r] = HTTPException(400, "Bidding for this item has closed")
        /\ local[r].amount < items[local[r].item_id].min_bid

\* An authenticated delete_bid request starts in slot r with this step; the
\* uuid it names is then local'[r].uuid.
DeleteBidStarts(r) ==
    /\ pc[r] = "idle"
    /\ local'[r].op = "delete_bid"
    /\ local'[r].user_id # 0

\* C7: a delete_bid by an authenticated account on a bid that exists and is
\* owned by another account ends with 404 and leaves the bids as they were;
\* and a step that removes bids removes only bids of the account whose
\* delete_bid handler takes the step.
C7_DeleteOfForeignBidNotFound ==
    [][\A r \in Reqs :
        /\ ( /\ DeleteBidStarts(r)
             /\ \E b \in bids : /\ b.uuid = local'[r].uuid
                                /\ b.user_id # local'[r].user_id )
           => /\ pc'[r] = "done"
              /\ resp'[r] = HTTPException(404, "Bid not found")
              /\ bids' = bids
        /\ ( pc[r] = "del_delete" /\ Steps(r) )
           => \A b \in bids \ bids' : b.user_id = local[r].user_id
      ]_vars

\* A delete_bid has ended with 404 for a bid that is in the table and is
\* owned by another account.
C7_Witness ==
    \E r \in Reqs :
        /\ pc[r] = "done"
        /\ local[r].op = "delete_bid"
        /\ resp[r] = HTTPException(404, "Bid not found")
        /\ \E b \in bids : b.uuid = local[r].uuid /\ b.user_id # local[r].user_id

\* C8: no step removes a bid of an item that is closed when the bid is
\* removed.
C8_NoBidOfClosedItemRemoved ==
    [][\A b \in bids \ bids' : ~items[b.item_id].is_closed]_vars

\* The effective minimum of item id: the larger of its stored minimum and the
\* highest bid it has.
EffectiveMin(id) ==
    IF CurrentMax(bids, id) > items[id].min_bid
      THEN CurrentMax(bids, id) ELSE items[id].min_bid

\* C9: every item a listing (GET /items, GET /item/{id}) has returned reports
\* the effective minimum as its minimum bid and the highest bid, or null, as
\* its current bid, and the list is in ascending show order.  (Under
\* SpecItems one request runs at a time, so the bids are still those the
\* listing was computed from while its response is held.)
C9_ListingReportsEffectiveMinimum ==
    \A r \in Reqs :
        ( /\ pc[r] = "done"
          /\ local[r].op \in {"get_items", "get_item"}
          /\ resp[r].status = 200 )
        => LET body == resp[r].body
           IN  /\ \A k \in DOMAIN body :
                    /\ body[k].minimumBid = EffectiveMin(body[k].id)
                    /\ body[k].currentBid =
                         IF ItemBids(body[k].id) = {} THEN None
                         ELSE Some(CurrentMax(bids, body[k].id))
               /\ \A j, k \in DOMAIN body :
                    j < k => body[j].showOrder <= body[k].showOrder

\* An authenticated get_user_bid request starts in slot r with this step.
GetUserBidStarts(r) ==
    /\ pc[r] = "idle"
    /\ local'[r].op = "get_user_bid"
    /\ local'[r].user_id # 0

\* C10: get_user_bid ends with 404 when the account has no bid on the item;
\* otherwise the bid it reports is a bid of that account on that item than
\* which the account has none created later, and is_highest is true exactly
\* when the amount of that bid is at least the highest amount among the
\* item's bids at the moment the handler reads it.
C10_UserBidStatus ==
    [][\A r \in Reqs :
        /\ GetUserBidStarts(r)
           => LET rows == {b \in bids : /\ b.user_id = local'[r].user_id
                                        /\ b.item_id = local'[r].item_id}
              IN  IF rows = {}
                    THEN /\ pc'[r] = "done"
                         /\ resp'[r] = HTTPException(404, "Not found")
                  ELSE /\ pc'[r] = "get_select_max"
                       /\ \E b \in rows :
                            /\ b.uuid = local'[r].uuid
                            /\ b.amount = local'[r].amount
                            /\ \A c \in rows : c.created_at <= b.created_at
        /\ ( pc[r] = "get_select_max" /\ Steps(r) )
           => /\ pc'[r] = "done"
              /\ resp'[r].status = 200
              /\ resp'[r].body =
                   <<[uid |-> local[r].uuid,
                      amount |-> local[r].amount,
                      is_highest |->
                        (local[r].amount >= CurrentMax(bids, local[r].item_id))]>>
      ]_vars

\* get_user_bid has reported the later of two bids the account made on the
\* item at different times.
C10_Witness ==
    \E r \in Reqs :
        /\ pc[r] = "done"
        /\ local[r].op = "get_user_bid"
        /\ resp[r].status = 200
        /\ \E b, c \in bids :
              /\ b.user_id = local[r].user_id /\ b.item_id = local[r].item_id
              /\ c.user_id = local[r].user_id /\ c.item_id = local[r].item_id
              /\ c.created_at < b.created_at
              /\ resp[r].body[1].uid = b.uuid

\* The accounts of B that hold the email e.
AccountsOf(B, e) == {a \in B : a.email = e}

\* C11: a login with an email that has an account creates no account,
\* overwrites the stored name with its own and gets a session for that
\* account's id; a login with a new email creates exactly one account, with
\* its name and email and an id no account had, and gets a session for it.
C11_LoginUpserts ==
    [][\A r \in Reqs :
        /\ ( pc[r] = "idle" /\ Steps(r) /\ local'[r].op = "login" )
           => IF AccountsOf(accounts, local'[r].email) # {}
                THEN accounts' = accounts /\ pc'[r] = "login_update"
              ELSE \E a \in accounts' :
                      /\ a \notin accounts
                      /\ accounts' = accounts \cup {a}
                      /\ a.email = local'[r].email
                      /\ a.name = local'[r].name
                      /\ a.id \notin {x.id : x \in accounts}
                      /\ local'[r].user_id = a.id
                      /\ pc'[r] = "login_commit"
        /\ ( pc[r] = "login_update" /\ Steps(r) )
           => \E a \in accounts :
                 /\ AccountsOf(accounts, local[r].email) = {a}
                 /\ accounts' = (accounts \ {a})
                                   \cup {[a EXCEPT !.name = local[r].name]}
                 /\ local'[r].user_id = a.id
                 /\ pc'[r] = "login_commit"
        /\ ( pc[r] = "login_commit" /\ Steps(r) )
           => /\ accounts' = accounts
              /\ resp'[r].status = 200
              /\ resp'[r].body[1].payload = local[r].user_id
              /\ \E a \in accounts :
                    a.email = local[r].email /\ a.id = local[r].user_id
    ]_vars

\* login("Alice", "a@x.com") and login("Alicia", "a@x.com") have both been
\* answered with a session for the same account, whose name is now "Alicia".
C11_Witness ==
    /\ pc = [r \in Reqs |-> IF r <= 2 THEN "done" ELSE "idle"]
    /\ local[1].op = "login" /\ local[2].op = "login"
    /\ {local[1].name, local[2].name} = {"Alice", "Alicia"}
    /\ local[1].email = "a@x.com" /\ local[2].email = "a@x.com"
    /\ resp[1].body[1].payload = resp[2].body[1].payload
    /\ \E a \in accounts :
          /\ AccountsOf(accounts, "a@x.com") = {a}
          /\ a.name = "Alicia"
          /\ a.id = resp[1].body[1].payload

\* C12: at any moment there is at most one account per email, and every
\* login that has been answered was answered 200 with a session for the id
\* of the one account that holds its email.
C12_ConcurrentLoginsOneAccount ==
    /\ \A a1, a2 \in accounts : a1.email = a2.email => a1 = a2
    /\ \A r \in Reqs :
          (pc[r] = "done" /\ local[r].op = "login")
             => /\ resp[r].status = 200
                /\ \E a \in accounts :
                      /\ a.email = local[r].email
                      /\ resp[r].body[1].payload = a.id

\* Two logins with the same new email are in flight: one has inserted the
\* account and not yet answered, the other's INSERT raised IntegrityError.
C12_Witness ==
    \E r1, r2 \in Reqs :
        /\ pc[r1] = "login_commit"
        /\ pc[r2] = "login_update"
        /\ local[r1].email = local[r2].email
        /\ Cardinality(accounts) = 1

\* C18: no account has id 0, no token login has issued decodes to 0, and
\* none of them passes the admin check.
C18_NoAccountWithAdminId ==
    /\ \A a \in accounts : a.id # 0
    /\ \A token \in issued :
          /\ token.payload # 0
          /\ validate_session_token(token, now) # Some(0)
          /\ ~validate_admin_session(token, now)

\* Logins have created accounts and issued tokens for them.
C18_Witness ==
    /\ Cardinality(accounts) = Cardinality(Emails)
    /\ Cardinality(issued) = Cardinality(Emails)

\* The donations of D that account u has.
DonationsOf(D, u) == {d \in D : d.user_id = u}

\* C13: the donations table changes only by a donate, which leaves the
\* account with exactly one donation, of the amount just given, and every
\* other account's donations as they were; get_donation of an account that
\* has a donation answers 200 with the stored amount.
C13_DonationUpsert ==
    [][/\ \A r \in Reqs :
            /\ ( pc[r] = "idle" /\ pc'[r] = "donate_commit" )
               => /\ \E d \in donations' :
                        /\ DonationsOf(donations', local'[r].user_id) = {d}
                        /\ d.amount = local'[r].amount
                  /\ \A u \in {a.id : a \in accounts} \ {local'[r].user_id} :
                        DonationsOf(donations', u) = DonationsOf(donations, u)
            /\ ( /\ pc[r] = "idle" /\ Steps(r)
                 /\ local'[r].op = "get_donation"
                 /\ DonationsOf(donations, local'[r].user_id) # {} )
               => /\ resp'[r].status = 200
                  /\ \E d \in donations :
                        /\ DonationsOf(donations, local'[r].user_id) = {d}
                        /\ resp'[r].body = <<d.amount>>
       /\ donations' # donations
            => \E r \in Reqs : pc[r] = "idle" /\ pc'[r] = "donate_commit"
       /\ \A d1, d2 \in donations' : d1.user_id = d2.user_id => d1 = d2
    ]_vars

\* An account donated, donated again a second later, and its get_donation
\* was answered with the amount of the second donation, the only row stored.
C13_Witness ==
    \E r \in Reqs :
        /\ pc[r] = "done"
        /\ local[r].op = "get_donation"
        /\ now = 1
        /\ donations = {[user_id |-> local[r].user_id, amount |-> MaxAmount,
                         updated_at |-> 1]}
        /\ resp[r] = Ok("", <<MaxAmount>>)

\* C14: get_donation of an authenticated account that has no donation is
\* answered 404.
C14_NoDonationIsNotFound ==
    \A r \in Reqs :
        ( /\ pc[r] = "done"
          /\ local[r].op = "get_donation"
          /\ local[r].user_id # 0
          /\ DonationsOf(donations, local[r].user_id) = {} )
        => resp[r].status = 404

\* The age, at the last validation, of the token that was validated.
ValidatedAge == validated[1].at - validated[1].token.iat

\* C15: validate_session_token of a token the serializer signed for x gives
\* x while the token's age is at most SESSION_MAX_AGE and None afterwards;
\* validate_admin_session of a token signed for 0 gives True while its age
\* is at most ADMIN_SESSION_MAX_AGE, and gives False for any signed token
\* that is older.
C15_ValidateUntilMaxAge ==
    (validated # None /\ validated[1].token \in issued)
    => /\ validated[1].fn = "validate_session_token"
          => validated[1].result =
                IF ValidatedAge <= SESSION_MAX_AGE
                  THEN Some(validated[1].token.payload) ELSE None
       /\ validated[1].fn = "validate_admin_session"
          => /\ ValidatedAge > ADMIN_SESSION_MAX_AGE
                => validated[1].result = FALSE
             /\ (ValidatedAge <= ADMIN_SESSION_MAX_AGE
                   /\ validated[1].token.payload = 0)
                => validated[1].result = TRUE

\* A token signed for identifier 0 was validated by validate_session_token
\* at the age of exactly SESSION_MAX_AGE and gave 0.
C15_Witness ==
    /\ validated # None
    /\ validated[1].fn = "validate_session_token"
    /\ validated[1].token \in issued
    /\ validated[1].token.payload = 0
    /\ ValidatedAge = SESSION_MAX_AGE
    /\ validated[1].result = Some(0)

\* The last validation accepted its token.
Accepted ==
    /\ validated # None
    /\ IF validated[1].fn = "validate_session_token"
         THEN validated[1].result # None
       ELSE validated[1].result = TRUE

\* C16: a token that a validate function accepts is one the serializer signed.
C16_OnlySignedTokensAccepted == Accepted => validated[1].token \in issued

\* A token put together from a signed token, with another identifier, was
\* presented and not accepted.
C16_Witness ==
    /\ validated # None
    /\ ~Accepted
    /\ validated[1].token \notin issued
    /\ \E k \in issued :
          /\ k.sig = validated[1].token.sig
          /\ k.iat = validated[1].token.iat
          /\ k.payload # validated[1].token.payload
          /\ validated[1].at = k.iat

\* The token carries the serializer's signature of its payload and time.
Signed(token) == token = dumps(token.payload, token.iat)

\* The cookie is an admin token: the serializer's signature of identifier 0.
IsAdminToken(session) ==
    session # None /\ Signed(session[1]) /\ session[1].payload = 0

\* The cookie is the session token of an account, not older than max_age.
IsAccountToken(session, max_age) ==
    /\ session # None
    /\ Signed(session[1])
    /\ now - session[1].iat <= max_age
    /\ \E a \in accounts : a.id = session[1].payload

\* The request of slot r with cookie s, if it is one to a handler that asks
\* for a session, is answered 401 (404 by get_user_bid) and changes no table.
TurnedAway(r, s) ==
    /\ local'[r].op = "place_bid"
       => \A item_id \in ItemIdInputs, amount \in Amounts :
             place_bid_request(r, s, item_id, amount)
                => resp'[r].status = 401 /\ db' = db
    /\ local'[r].op = "delete_bid"
       => \A id \in UuidInputs :
             delete_bid_request(r, s, id) => resp'[r].status = 401 /\ db' = db
    /\ local'[r].op = "donate"
       => \A amount \in Amounts :
             donate_request(r, s, amount) => resp'[r].status = 401 /\ db' = db
    /\ local'[r].op = "get_donation"
       => (get_donation_request(r, s) => resp'[r].status = 401 /\ db' = db)
    /\ local'[r].op = "get_user_bid"
       => \A item_id \in ItemIdInputs :
             get_user_bid_request(r, s, item_id)
                => resp'[r] = HTTPException(404, "Not found") /\ db' = db

\* C17: GET /admin/bids with the session token of an account as admin_session
\* is answered 401; a request with an admin token as session is turned away
\* by place_bid, delete_bid, get_user_bid, donate and get_donation; and no bid
\* or donation is stored with user_id 0.
C17_TokenClassesAreSeparate ==
    [][/\ \A r \in Reqs :
            (pc[r] = "idle" /\ Steps(r))
            => /\ \A s \in AdminSessions(now) :
                     IsAccountToken(s, SESSION_MAX_AGE)
                     => (get_all_bids_request(r, s) => resp'[r].status = 401)
               /\ \A s \in Sessions(now) : IsAdminToken(s) => TurnedAway(r, s)
       /\ \A b \in bids' : b.user_id # 0
       /\ \A d \in donations' : d.user_id # 0
    ]_vars

\* A POST /bid that carried a fresh admin token as its session cookie has
\* been answered 401.
C17_Witness ==
    \E r \in Reqs :
        /\ pc[r] = "done"
        /\ local[r] = Unauthenticated("place_bid",
                                      Some(create_admin_session_token(now)))
        /\ resp[r].status = 401

\* The cookie is missing, carries a signature that does not verify, or is
\* older than SESSION_MAX_AGE.
MissingInvalidOrExpired(session) ==
    \/ session = None
    \/ ~Signed(session[1])
    \/ now - session[1].iat > SESSION_MAX_AGE

\* C19: a request with a missing, invalid or expired session changes no table
\* and is answered 401 by place_bid, delete_bid, donate and get_donation, and
\* 404 "Not found" by get_user_bid, which is also what get_user_bid answers
\* an authenticated account that has no bid on the item.
C19_UnauthenticatedOutcomes ==
    [][\A r \in Reqs :
          (pc[r] = "idle" /\ Steps(r))
          => /\ \A s \in Sessions(now) :
                   MissingInvalidOrExpired(s) => TurnedAway(r, s)
             /\ \A s \in Sessions(now), item_id \in ItemIdInputs :
                   ( /\ local'[r].op = "get_user_bid"
                     /\ IsAccountToken(s, SESSION_MAX_AGE)
                     /\ user_item_bids(s[1].payload, item_id) = {}
                     /\ get_user_bid_request(r, s, item_id) )
                   => resp'[r] = HTTPException(404, "Not found")
    ]_vars

\* A GET /bid/{item_id} that carried an expired session token has been
\* answered 404 while the account of the token has a bid stored.
C19_Witness ==
    \E r \in Reqs :
        /\ pc[r] = "done"
        /\ local[r] = Unauthenticated("get_user_bid",
                          Some(create_session_token(1, now - (SESSION_MAX_AGE + 1))))
        /\ resp[r] = HTTPException(404, "Not found")
        /\ \E b \in bids : b.user_id = 1

\* C20: a delete_bid by the account that owns the bid goes on to the check of
\* the item, goes on from there when the item is open, removes the bid with
\* the uuid it was given and nothing else from any table, whatever the bid's
\* amount, and is answered 200.
C20_DeleteRemovesThatBidOnly ==
    [][\A r \in Reqs :
        /\ ( /\ pc[r] = "idle" /\ Steps(r)
             /\ local'[r].op = "delete_bid"
             /\ local'[r].user_id # 0
             /\ \E b \in bids : /\ b.uuid = local'[r].uuid
                                /\ b.user_id = local'[r].user_id )
           => pc'[r] = "del_select_item" /\ db' = db
        /\ ( /\ pc[r] = "del_select_item" /\ Steps(r)
             /\ ~items[local[r].item_id].is_closed )
           => pc'[r] = "del_delete" /\ db' = db
        /\ ( pc[r] = "del_delete" /\ Steps(r) )
           => /\ bids' = {b \in bids : b.uuid # local[r].uuid}
              /\ <<items, accounts, donations, next_uuid>>'
                    = <<items, accounts, donations, next_uuid>>
              /\ pc'[r] = "del_commit"
        /\ ( pc[r] = "del_commit" /\ Steps(r) )
           => resp'[r].status = 200 /\ db' = db
    ]_vars

\* The first bid of an item has been deleted by its owner while a later bid
\* of the largest amount stays stored for the item.
C20_Witness ==
    \E r \in Reqs :
        /\ pc[r] = "del_commit"
        /\ local[r].uuid = 1
        /\ \A b \in bids : b.uuid # 1
        /\ \E b \in bids : /\ b.uuid = 2
                           /\ b.item_id = local[r].item_id
                           /\ b.amount = MaxAmount

(* --------------------- C21: who changes an item's row ----------------- *)

\* A handler of the API takes a step: each handler step moves a slot.
ApiStep == pc' # pc

\* C21: an item's closed flag only ever changes from open to closed, its
\* stored minimum bid never changes, and a step that changes an item's row is
\* never a step of a handler of the API (login, logout, admin login,
\* place_bid, delete_bid, donate, the read endpoints): it is the out-of-band
\* administrative action, which leaves every handler where it is.
C21_OnlyOutOfBandCloses ==
    [][ /\ DOMAIN items' = DOMAIN items
        /\ \A i \in DOMAIN items :
              /\ items'[i].min_bid = items[i].min_bid
              /\ items[i].is_closed => items'[i].is_closed
        /\ ApiStep => items' = items
        /\ items' # items => pc' = pc /\ local' = local /\ resp' = resp
      ]_vars

\* Item 1, open at the start, is closed after a login, an accepted bid and a
\* donation, with a handler just answered.
C21_Witness ==
    /\ items[1].is_closed
    /\ bids # {}
    /\ donations # {}
    /\ issued # {}
    /\ cleared # {}
    /\ pc[1] = "done"

(* ------------------------ C22: one winner per item -------------------- *)

\* The accounts get_user_bid can answer is_highest = true for item i in
\* this state: those with a bid on i, none of their bids on i created
\* later (by created_at), whose amount is at least the highest amount
\* stored for i.
Winners(i) ==
    {u \in {b.user_id : b \in bids} :
        \E b \in bids :
            /\ b.user_id = u
            /\ b.item_id = i
            /\ \A c \in bids :
                  (c.user_id = u /\ c.item_id = i) => c.created_at <= b.created_at
            /\ b.amount >= CurrentMax(bids, i)}

\* C22: in every state reached by interleaved place_bid and delete_bid
\* requests, and for every item, at most one account can be answered
\* is_highest = true by get_user_bid.
C22_AtMostOneWinner ==
    \A i \in ItemIds : Cardinality(Winners(i)) <= 1

(* ------------------- C23: the latest bid is the highest --------------- *)

\* The bids of account u on item i.
AccountBids(u, i) == {b \in bids : b.user_id = u /\ b.item_id = i}

\* C23: for every account and item, in every state, the bid the account
\* created last on the item (bids are numbered in the order of their INSERT)
\* has the highest amount among the account's bids on the item.
C23_LatestBidIsHighest ==
    \A u \in {b.user_id : b \in bids}, i \in ItemIds :
        \A b \in AccountBids(u, i) :
            (\A c \in AccountBids(u, i) : c.uuid <= b.uuid)
                => \A c \in AccountBids(u, i) : c.amount <= b.amount

(* -------------------- C24: logout revokes nothing --------------------- *)

\* Tokens the server signed for an account and answered a logout for, not
\* older than SESSION_MAX_AGE.
LoggedOutSessions ==
    {k \in cleared : /\ Signed(k)
                     /\ k.payload # 0
                     /\ now - k.iat <= SESSION_MAX_AGE}

\* Admin tokens the server signed and answered an admin logout for, not
\* older than ADMIN_SESSION_MAX_AGE.
LoggedOutAdminSessions ==
    {k \in cleared : /\ Signed(k)
                     /\ k.payload = 0
                     /\ now - k.iat <= ADMIN_SESSION_MAX_AGE}

\* The request of slot r is not answered 401 and runs as account u.
AcceptedAs(r, u) ==
    /\ local'[r].user_id = u
    /\ ~(pc'[r] = "done" /\ resp'[r].status = 401)

\* The request of slot r with session token k, if it is one to place_bid,
\* delete_bid, donate or get_donation, is accepted as the account of k.
StillAccepted(r, k) ==
    /\ local'[r].op = "place_bid"
       => \A item_id \in ItemIdInputs, amount \in Amounts :
             place_bid_request(r, Some(k), item_id, amount)
                => AcceptedAs(r, k.payload)
    /\ local'[r].op = "delete_bid"
       => \A id \in UuidInputs :
             delete_bid_request(r, Some(k), id) => AcceptedAs(r, k.payload)
    /\ local'[r].op = "donate"
       => \A amount \in Amounts :
             donate_request(r, Some(k), amount) => AcceptedAs(r, k.payload)
    /\ local'[r].op = "get_donation"
       => (get_donation_request(r, Some(k)) => AcceptedAs(r, k.payload))

\* C24: a logout or admin logout is answered 200 and changes no table and
\* no token; a session token a logout was answered for is still accepted by
\* place_bid, delete_bid, donate and get_donation while its age is within
\* SESSION_MAX_AGE, and an admin token an admin logout was answered for still
\* gets 200 from GET /admin/bids while its age is within
\* ADMIN_SESSION_MAX_AGE.
C24_LogoutRevokesNothing ==
    [][\A r \in Reqs :
          (pc[r] = "idle" /\ Steps(r))
          => /\ local'[r].op \in {"logout", "admin_logout"}
                => /\ resp'[r].status = 200
                   /\ db' = db
                   /\ issued' = issued
             /\ \A k \in LoggedOutSessions : StillAccepted(r, k)
             /\ local'[r].op = "get_all_bids"
                => \A k \in LoggedOutAdminSessions :
                      get_all_bids_request(r, Some(k)) => resp'[r].status = 200
      ]_vars

\* A donation has been recorded for an account all of whose session tokens
\* were logged out before, with a token exactly SESSION_MAX_AGE old.
C24_Witness ==
    /\ pc[1] = "done"
    /\ local[1].op = "donate"
    /\ resp[1].status = 200
    /\ \E k \in cleared :
          /\ k.payload = local[1].user_id
          /\ now = k.iat + SESSION_MAX_AGE
          /\ \A j \in issued :
                (j.payload = k.payload /\ now - j.iat <= SESSION_MAX_AGE)
                    => j \in cleared
    /\ \E d \in donations :
          d.user_id = local[1].user_id /\ d.updated_at = now

====
